---- MODULE Spec2Model ----
(***************************************************************************)
(* Model of aten/src/ATen/native/cpu/FusedAdamKernel.cpp: the fused        *)
(* Adam / AdamW CPU step.  fused_adam_kernel dispatches on dtype and mode  *)
(* to adam_fused_step_impl, which precomputes the per-step scalars and     *)
(* runs adam_math on every shard handed out by at::parallel_for.           *)
(*                                                                         *)
(* Numbers are finite fixed-point values: an opmath_t value x is the       *)
(* integer x * One, every product, quotient and square root is rounded to  *)
(* that grid.  A Half/BFloat16 buffer element is held in storage units     *)
(* (Quantum opmath steps each); a float/double buffer element is held in   *)
(* opmath units (scalar_t = opmath_t).  Infinities and NaN are outside     *)
(* the model.                                                              *)
(***************************************************************************)
EXTENDS Integers, Sequences, FiniteSets

(* ------------------------------ bounds --------------------------------- *)
\* largest element count numel() of the parameter tensor
MaxN == 3
\* number of optimizer steps (kernel calls) in a run
MaxStep == 2

(* ---------------------------- arithmetic ------------------------------- *)
\* opmath_t resolution: the integer One stands for 1.0
One == 256
\* one Half/BFloat16 storage step, in opmath steps
Quantum == 16

\* n / d rounded to the nearest grid point, ties away from zero (d > 0)
RoundDiv(n, d) == IF n >= 0 THEN (2 * n + d) \div (2 * d)
                            ELSE -((2 * (-n) + d) \div (2 * d))

\* operator* on opmath_t / Vectorized<opmath_t>
Mul(a, b) == RoundDiv(a * b, One)

\* operator/ on opmath_t / Vectorized<opmath_t>
Div(a, b) == IF b > 0 THEN RoundDiv(a * One, b) ELSE -RoundDiv(a * One, -b)

RECURSIVE ISqrtBetween(_, _, _)
ISqrtBetween(lo, hi, x) ==
    IF lo >= hi THEN lo
    ELSE LET mid == (lo + hi + 1) \div 2
         IN  IF mid <= x \div mid THEN ISqrtBetween(mid, hi, x)
                               ELSE ISqrtBetween(lo, mid - 1, x)

\* std::sqrt / Vectorized::sqrt on a non-negative opmath_t
Sqrt(a) == ISqrtBetween(0, a * One, a * One)

\* std::max(a, b) and at::vec::maximum(a, b) on finite values
Maximum(a, b) == IF a < b THEN b ELSE a

RECURSIVE Pow(_, _)
\* std::pow(beta, step) for a whole step >= 0
Pow(b, k) == IF k = 0 THEN One ELSE Mul(b, Pow(b, k - 1))

\* vec::convert_to_float<scalar_t>: a storage value as an opmath_t value
ConvertToFloat(s) == s * Quantum

\* vec::convert_from_float<scalar_t> / scalar_t(x): round to storage
ConvertFromFloat(x) == RoundDiv(x, Quantum)

(* ------------------------- call arguments ------------------------------ *)
Narrow == {"Half", "BFloat16"}
ScalarTypes == {"BFloat16", "Float"}
AdamModes == {"ORIGINAL", "ADAMW"}

\* const double lr, beta1, beta2, eps
lr == One \div 4
beta1 == One \div 2
beta2 == (3 * One) \div 4
eps == One \div 256

\* weight_decay values the optimizer is constructed with
WeightDecays == {0, One \div 4}
\* *grad_scale_ptr; 0 stands for grad_scale_ptr == nullptr
GradScales == {0, 2 * One}

\* at::vec::Vectorized<scalar_t>::size(), float/double specialization
VecSize == 2
\* at::vec::Vectorized<opmath_t>::size(): one half of a Half/BFloat16 vector
fVecSize == 1
\* at::vec::Vectorized<scalar_t>::size(), Half/BFloat16 specialization
lpVecSize == 2 * fVecSize

(* --------------- adam_fused_step_impl: per-step scalars ---------------- *)
\* lines 274-279, and the argument list handed to adam_math (lines 293-312)
StepArgs(mode, ams, mx, wd, scale, step) ==
    LET bias_correction1 == One - Pow(beta1, step)
        bias_correction2 == One - Pow(beta2, step)
    IN  [ adam_mode |-> mode,
          lr |-> lr,
          step_size |-> Div(lr, bias_correction1),
          bias_correction2 |-> bias_correction2,
          exp_avg_grad_coefficient |-> One - beta1,
          exp_avg_sq_grad_coefficient |-> One - beta2,
          bias_correction2_sqrt |-> Sqrt(bias_correction2),
          eps |-> eps,
          weight_decay |-> wd,
          beta2 |-> beta2,
          amsgrad |-> ams,
          maximize |-> mx,
          grad_scale |-> scale ]

(* ------------------- adam_math: shared branch tests -------------------- *)
\* if (grad_scale_ptr)
UnscaleBranch(h) == h.grad_scale # 0

\* a decay branch that is entered whatever weight_decay is
DecayBranchAlways(h) == TRUE

\* if (weight_decay != 0.f)
DecayBranch(h) == h.weight_decay # 0

\* an amsgrad branch that is entered whatever the flag is
AmsgradBranchAlways(h) == TRUE

\* if (amsgrad)
AmsgradBranch(h) == h.amsgrad

\* the store placed after the sign flip
GradToStoreSigned(unscaled, signed) == signed

\* grad_vec_to_store / grad_val_to_store: taken right after the division,
\* before the maximize sign flip
GradToStore(unscaled, signed) == unscaled

\* the sign flip placed after the weight-decay term
DecayedGradFlipLast(h, unscaled, flipped, p) ==
    LET decayed == IF DecayBranch(h) /\ h.adam_mode = "ORIGINAL"
                   THEN unscaled + Mul(p, h.weight_decay) ELSE unscaled
    IN  IF h.maximize THEN -decayed ELSE decayed

\* the local gradient after "if (maximize)" and the ORIGINAL arm of
\* "if (weight_decay != 0.f)": flipped is the negated gradient the
\* specialization computed, p the pre-step parameter in opmath_t
DecayedGrad(h, unscaled, flipped, p) ==
    LET signed == IF h.maximize THEN flipped ELSE unscaled
    IN  IF DecayBranch(h) /\ h.adam_mode = "ORIGINAL"
        THEN signed + Mul(p, h.weight_decay) ELSE signed

\* a running "max" that keeps the smaller value
MaximumAsMin(a, b) == IF a < b THEN a ELSE b

\* maximum(max_exp_avg_sq, exp_avg_sq) / std::max(...) of the amsgrad branch
RunningMax(a, b) == Maximum(a, b)

(* --------------- adam_math, float/double specialization ---------------- *)
\* One lane of the vector loop body, lines 177-213.  e holds the lane's
\* loaded param, grad, exp_avg, exp_avg_sq, max_exp_avg_sq.
WideVecLane(h, e) ==
    LET param_vec == e.param
        unscaled == IF UnscaleBranch(h) THEN Div(e.grad, h.grad_scale) ELSE e.grad
        signed == IF h.maximize THEN Mul(unscaled, -One) ELSE unscaled
        decay == DecayBranch(h)
        grad_vec == DecayedGrad(h, unscaled, Mul(unscaled, -One), param_vec)
        param_dec == IF decay /\ h.adam_mode = "ADAMW"
                     THEN param_vec - Mul(Mul(h.lr, h.weight_decay), param_vec)
                     ELSE param_vec
        exp_avg_vec == e.exp_avg
                       + Mul(h.exp_avg_grad_coefficient, grad_vec - e.exp_avg)
        exp_avg_sq_vec == Mul(e.exp_avg_sq, h.beta2)
                          + Mul(Mul(h.exp_avg_sq_grad_coefficient, grad_vec), grad_vec)
        ams == AmsgradBranch(h)
        max_exp_avg_sq_vec == IF ams THEN RunningMax(e.max_exp_avg_sq, exp_avg_sq_vec)
                                     ELSE e.max_exp_avg_sq
        denom_vec == Div(Sqrt(IF ams THEN max_exp_avg_sq_vec ELSE exp_avg_sq_vec),
                         h.bias_correction2_sqrt) + h.eps
    IN  [ param |-> param_dec - Div(Mul(h.step_size, exp_avg_vec), denom_vec),
          grad |-> IF UnscaleBranch(h) THEN GradToStore(unscaled, signed) ELSE e.grad,
          exp_avg |-> exp_avg_vec,
          exp_avg_sq |-> exp_avg_sq_vec,
          max_exp_avg_sq |-> max_exp_avg_sq_vec,
          decay |-> decay, ams |-> ams ]

\* a tail body that decays the parameter in ORIGINAL mode as well
WideTailLaneDecayBoth(h, e) == WideVecLane([h EXCEPT !.adam_mode = "ADAMW"], e)

\* One iteration of the tail loop, lines 217-244; the buffers' elements are
\* updated in place, statement by statement.
WideTailLane(h, e) ==
    LET unscaled == IF UnscaleBranch(h) THEN Div(e.grad, h.grad_scale) ELSE e.grad
        signed == IF h.maximize THEN -unscaled ELSE unscaled
        decay == DecayBranch(h)
        grad_val == DecayedGrad(h, unscaled, -unscaled, e.param)
        param1 == IF decay /\ h.adam_mode = "ADAMW"
                  THEN e.param - Mul(Mul(h.lr, h.weight_decay), e.param)
                  ELSE e.param
        exp_avg1 == e.exp_avg + Mul(h.exp_avg_grad_coefficient, grad_val - e.exp_avg)
        exp_avg_sq1 == Mul(e.exp_avg_sq, h.beta2)
        exp_avg_sq2 == exp_avg_sq1
                       + Mul(Mul(h.exp_avg_sq_grad_coefficient, grad_val), grad_val)
        ams == AmsgradBranch(h)
        max1 == IF ams THEN RunningMax(e.max_exp_avg_sq, exp_avg_sq2)
                       ELSE e.max_exp_avg_sq
        demon_val == Div(Sqrt(IF ams THEN max1 ELSE exp_avg_sq2),
                         h.bias_correction2_sqrt) + h.eps
    IN  [ param |-> param1 - Div(Mul(h.step_size, exp_avg1), demon_val),
          grad |-> IF UnscaleBranch(h) THEN GradToStore(unscaled, signed) ELSE e.grad,
          exp_avg |-> exp_avg1,
          exp_avg_sq |-> exp_avg_sq2,
          max_exp_avg_sq |-> max1,
          decay |-> decay, ams |-> ams ]

(* --------------- adam_math, Half/BFloat16 specialization --------------- *)
\* grad_vec1 / grad_vec2 after lines 51-54: converted to float and unscaled
NarrowUnscaled(h, e) ==
    IF UnscaleBranch(h) THEN Div(ConvertToFloat(e.grad), h.grad_scale)
                        ELSE ConvertToFloat(e.grad)

\* grad_vec1 / grad_vec2 after lines 58-70: sign flip, then ORIGINAL decay
NarrowGradVec(h, e) ==
    DecayedGrad(h, NarrowUnscaled(h, e), Mul(NarrowUnscaled(h, e), -One),
                ConvertToFloat(e.param))

\* One element of the vector loop body, lines 48-106.  grad_m is the float
\* gradient lane that enters the exp_avg update (lines 74-75); the lane's
\* own gradient enters everything else.
NarrowVecLane(h, e, grad_m) ==
    LET param_vec == ConvertToFloat(e.param)
        unscaled == NarrowUnscaled(h, e)
        signed == IF h.maximize THEN Mul(unscaled, -One) ELSE unscaled
        decay == DecayBranch(h)
        grad_vec == NarrowGradVec(h, e)
        param_dec == IF decay /\ h.adam_mode = "ADAMW"
                     THEN param_vec - Mul(Mul(h.lr, h.weight_decay), param_vec)
                     ELSE param_vec
        exp_avg_f == ConvertToFloat(e.exp_avg)
        exp_avg_vec == exp_avg_f + Mul(h.exp_avg_grad_coefficient, grad_m - exp_avg_f)
        exp_avg_sq_vec == Mul(ConvertToFloat(e.exp_avg_sq), h.beta2)
                          + Mul(Mul(h.exp_avg_sq_grad_coefficient, grad_vec), grad_vec)
        ams == AmsgradBranch(h)
        max_exp_avg_sq_vec == IF ams
                              THEN RunningMax(ConvertToFloat(e.max_exp_avg_sq),
                                              exp_avg_sq_vec)
                              ELSE 0
        denom_vec == Div(Sqrt(IF ams THEN max_exp_avg_sq_vec ELSE exp_avg_sq_vec),
                         h.bias_correction2_sqrt) + h.eps
    IN  [ param |-> ConvertFromFloat(
                        param_dec - Div(Mul(h.step_size, exp_avg_vec), denom_vec)),
          grad |-> IF UnscaleBranch(h)
                   THEN ConvertFromFloat(GradToStore(unscaled, signed)) ELSE e.grad,
          exp_avg |-> ConvertFromFloat(exp_avg_vec),
          exp_avg_sq |-> ConvertFromFloat(exp_avg_sq_vec),
          max_exp_avg_sq |-> IF ams THEN ConvertFromFloat(max_exp_avg_sq_vec)
                                    ELSE e.max_exp_avg_sq,
          decay |-> decay, ams |-> ams ]

\* an element of the first half of a loaded vector: line 74 uses grad_vec1
NarrowVecFirstHalf(h, e) == NarrowVecLane(h, e, NarrowGradVec(h, e))

\* an element of the second half: line 75 uses grad_vec1, the gradient lane
\* of the first-half element e1 at the same lane position
NarrowVecSecondHalf(h, e, e1) == NarrowVecLane(h, e, NarrowGradVec(h, e1))

\* One iteration of the tail loop, lines 110-144.
NarrowTailLane(h, e) ==
    LET grad0 == ConvertToFloat(e.grad)
        param_val == ConvertToFloat(e.param)
        unscaled == IF UnscaleBranch(h) THEN Div(ConvertToFloat(e.grad), h.grad_scale)
                                        ELSE grad0
        signed == IF h.maximize THEN -unscaled ELSE unscaled
        decay == DecayBranch(h)
        grad_val == DecayedGrad(h, unscaled, -unscaled, ConvertToFloat(e.param))
        param_dec == IF decay /\ h.adam_mode = "ADAMW"
                     THEN param_val - Mul(Mul(h.lr, h.weight_decay), param_val)
                     ELSE param_val
        exp_avg0 == ConvertToFloat(e.exp_avg)
        exp_avg_var == exp_avg0 + Mul(h.exp_avg_grad_coefficient, grad_val - exp_avg0)
        exp_avg_sq1 == Mul(ConvertToFloat(e.exp_avg_sq), h.beta2)
        exp_avg_sq_var == exp_avg_sq1
                          + Mul(Mul(h.exp_avg_sq_grad_coefficient, grad_val), grad_val)
        ams == AmsgradBranch(h)
        max_exp_avg_sq_var == IF ams
                              THEN RunningMax(ConvertToFloat(e.max_exp_avg_sq),
                                              exp_avg_sq_var)
                              ELSE 0
        demon_val == Div(Sqrt(IF ams THEN max_exp_avg_sq_var ELSE exp_avg_sq_var),
                         h.bias_correction2_sqrt) + h.eps
    IN  [ param |-> ConvertFromFloat(
                        param_dec - Div(Mul(h.step_size, exp_avg_var), demon_val)),
          grad |-> IF UnscaleBranch(h)
                   THEN ConvertFromFloat(GradToStore(unscaled, signed)) ELSE e.grad,
          exp_avg |-> ConvertFromFloat(exp_avg_var),
          exp_avg_sq |-> ConvertFromFloat(exp_avg_sq_var),
          max_exp_avg_sq |-> IF ams THEN ConvertFromFloat(max_exp_avg_sq_var)
                                    ELSE e.max_exp_avg_sq,
          decay |-> decay, ams |-> ams ]

(* ------------------------ buffers and loops ---------------------------- *)
\* element j of the five buffers, as the loads of one loop body see it
Elem(mem, j) ==
    [ param |-> mem.param[j], grad |-> mem.grad[j], exp_avg |-> mem.exp_avg[j],
      exp_avg_sq |-> mem.exp_avg_sq[j], max_exp_avg_sq |-> mem.max_exp_avg_sq[j] ]

\* the stores of one loop body: R[j] is the lane result of element j
Store(mem, R) ==
    [ param |-> [j \in DOMAIN mem.param |->
                    IF j \in DOMAIN R THEN R[j].param ELSE mem.param[j]],
      grad |-> [j \in DOMAIN mem.grad |->
                    IF j \in DOMAIN R THEN R[j].grad ELSE mem.grad[j]],
      exp_avg |-> [j \in DOMAIN mem.exp_avg |->
                    IF j \in DOMAIN R THEN R[j].exp_avg ELSE mem.exp_avg[j]],
      exp_avg_sq |-> [j \in DOMAIN mem.exp_avg_sq |->
                    IF j \in DOMAIN R THEN R[j].exp_avg_sq ELSE mem.exp_avg_sq[j]],
      max_exp_avg_sq |-> [j \in DOMAIN mem.max_exp_avg_sq |->
                    IF j \in DOMAIN R THEN R[j].max_exp_avg_sq
                                      ELSE mem.max_exp_avg_sq[j]] ]

\* Vec::size() / lpVec::size() of the specialization chosen for scalar_t
LaneCount(st) == IF st \in Narrow THEN lpVecSize ELSE VecSize

\* a vector loop that runs while any element is left
VecLoopGuardNoRemainder(dd, size, W) == dd < size

\* for (; d < size - (size % Vec::size()); d += Vec::size())
VecLoopGuard(dd, size, W) == dd < size - (size % W)

\* for (; d < size; d++), entered once the vector loop has ended
TailLoopGuard(dd, size, W) == ~VecLoopGuard(dd, size, W) /\ dd < size

\* the elements one vector iteration at absolute offset a loads and stores
VecSpan(st, mem, a) ==
    {j \in a .. (a + LaneCount(st) - 1) : j \in DOMAIN mem.param}

\* the lane results of one vector iteration at absolute offset a
VecResults(st, h, mem, a) ==
    [ j \in VecSpan(st, mem, a) |->
        IF st \in Narrow
        THEN IF j - a < fVecSize
             THEN NarrowVecFirstHalf(h, Elem(mem, j))
             ELSE NarrowVecSecondHalf(h, Elem(mem, j), Elem(mem, j - fVecSize))
        ELSE WideVecLane(h, Elem(mem, j)) ]

\* the result of one tail iteration at absolute offset a
TailResults(st, h, mem, a) ==
    [ j \in {a} |-> IF st \in Narrow THEN NarrowTailLane(h, Elem(mem, j))
                                     ELSE WideTailLane(h, Elem(mem, j)) ]

RECURSIVE AdamMath(_, _, _, _, _, _)
\* adam_math on the shard [begin, begin + size), from loop position dd
AdamMath(st, h, mem, begin, size, dd) ==
    IF VecLoopGuard(dd, size, LaneCount(st))
    THEN AdamMath(st, h, Store(mem, VecResults(st, h, mem, begin + dd)),
                  begin, size, dd + LaneCount(st))
    ELSE IF TailLoopGuard(dd, size, LaneCount(st))
    THEN AdamMath(st, h, Store(mem, TailResults(st, h, mem, begin + dd)),
                  begin, size, dd + 1)
    ELSE mem

RECURSIVE RunShards(_, _, _, _)
\* the parallel_for body (lines 284-313) applied to the shards one by one
RunShards(st, h, mem, sh) ==
    IF sh = <<>> THEN mem
    ELSE RunShards(st, h,
                   AdamMath(st, h, mem, Head(sh).begin,
                            Head(sh).end - Head(sh).begin, 0),
                   Tail(sh))

Min(S) == CHOOSE x \in S : \A y \in S : x <= y

RECURSIVE ShardsFrom(_, _, _)
\* the contiguous ranges [begin, end) cut out of [b, n) at the points of C
ShardsFrom(b, n, C) ==
    IF b >= n THEN <<>>
    ELSE LET e == Min({c \in C : c > b} \cup {n})
         IN  <<[begin |-> b, end |-> e]>> \o ShardsFrom(e, n, C)

\* at::parallel_for(0, n, 0, f): every split of [0, n) into non-empty
\* contiguous ranges; none at all when n = 0
Partitions(n) == {ShardsFrom(0, n, C) : C \in SUBSET (1 .. (n - 1))}

(* ------------------------------ inputs --------------------------------- *)
\* the value k/16 in the representation of a scalar_t buffer
Input(st, k) == IF st \in Narrow THEN k ELSE k * Quantum

ParamValues == <<16, -32, 8, 24>>
GradValuesA == <<16, -8, 40, 4>>
GradValuesB == <<-24, 2, 8, 32>>

Cyc(seq, i) == seq[(i % Len(seq)) + 1]

\* Tensor::contiguous(): the logical elements, in order
Contiguous(storage, stride, n) == [j \in 0 .. (n - 1) |-> storage[j * stride]]

\* the gradient tensors a caller passes at step k: on odd steps values A,
\* contiguous or (for n >= 2) as a stride-2 view over a longer storage; on
\* even steps values B, contiguous
GradTensors(st, n, k) ==
    IF k % 2 = 0
    THEN {[storage |-> [i \in 0 .. (n - 1) |-> Input(st, Cyc(GradValuesB, i))],
           stride |-> 1]}
    ELSE {[storage |-> [i \in 0 .. (n - 1) |-> Input(st, Cyc(GradValuesA, i))],
           stride |-> 1]}
         \cup
         ( IF n >= 2
           THEN {[storage |-> [i \in 0 .. (2 * n - 2) |->
                                  Input(st, Cyc(GradValuesA, i))],
                  stride |-> 2]}
           ELSE {} )

(* ------------------------------- state --------------------------------- *)
VARIABLES
    scalar_t,        \* element dtype of the five tensors
    adam_mode,       \* ADAM_MODE the optimizer was built with
    amsgrad,         \* flag
    maximize,        \* flag
    weight_decay,    \* hyperparameter
    grad_scale,      \* *grad_scale_ptr, 0 when the pointer is null
    numel,           \* param.numel()
    param,           \* the buffers: functions 0 .. numel-1 -> storage value
    exp_avg,
    exp_avg_sq,
    max_exp_avg_sq,
    grad,            \* storage of the caller's grad tensor (grad.data_ptr())
    grad_stride,     \* its stride: 1 when contiguous
    grad_contiguous, \* the tensor made by grad.contiguous() (line 333)
    state_step,      \* the step count the driver passes
    phase,           \* "ready" | "running" | "returned"
    shards,          \* the ranges parallel_for handed to its workers
    d,               \* d[w]: loop variable d of worker w's adam_math
    pre,             \* the buffers as they were when the call was made
    updatedBy,       \* updatedBy[j]: the workers whose loop bodies touched j
    decay_taken,     \* some loop body of this call entered the decay branch
    max_accessed     \* some loop body dereferenced max_exp_avg_sq_ptr

config == <<scalar_t, adam_mode, amsgrad, maximize, weight_decay, grad_scale, numel>>
buffers == <<param, exp_avg, exp_avg_sq, max_exp_avg_sq, grad>>
vars == <<config, buffers, grad_stride, grad_contiguous, state_step, phase,
          shards, d, pre, updatedBy, decay_taken, max_accessed>>

\* the five data pointers of lines 267-271: grad_data is grad.data_ptr(),
\* the storage of the tensor the caller passed
Mem == [ param |-> param, grad |-> grad, exp_avg |-> exp_avg,
         exp_avg_sq |-> exp_avg_sq, max_exp_avg_sq |-> max_exp_avg_sq ]

\* the scalar arguments of the running call
Args == StepArgs(adam_mode, amsgrad, maximize, weight_decay, grad_scale, state_step)

Indices == 0 .. (numel - 1)
Workers == 1 .. Len(shards)

Init ==
    /\ scalar_t \in ScalarTypes
    /\ adam_mode \in AdamModes
    /\ amsgrad \in BOOLEAN
    /\ maximize \in BOOLEAN
    /\ weight_decay \in WeightDecays
    /\ grad_scale \in GradScales
    /\ numel \in 0 .. MaxN
    /\ param = [j \in 0 .. (numel - 1) |-> Input(scalar_t, Cyc(ParamValues, j))]
    /\ exp_avg = [j \in 0 .. (numel - 1) |-> 0]
    /\ exp_avg_sq = [j \in 0 .. (numel - 1) |-> 0]
    /\ max_exp_avg_sq = [j \in 0 .. (numel - 1) |-> 0]
    /\ grad = [j \in 0 .. (numel - 1) |-> 0]
    /\ grad_stride = 1
    /\ grad_contiguous = grad
    /\ state_step = 0
    /\ phase = "ready"
    /\ shards = <<>>
    /\ d = <<>>
    /\ pre = [ param |-> param, grad |-> grad, exp_avg |-> exp_avg,
               exp_avg_sq |-> exp_avg_sq, max_exp_avg_sq |-> max_exp_avg_sq,
               grad_scale |-> grad_scale ]
    /\ updatedBy = [j \in 0 .. (numel - 1) |-> <<>>]
    /\ decay_taken = FALSE
    /\ max_accessed = FALSE

\* fused_adam_kernel (lines 333-341) and adam_fused_step_impl up to the
\* parallel_for: the driver has advanced the step and filled grad; the copy
\* grad_contiguous is made, grad itself is passed on, and parallel_for
\* hands out the shards.
Call ==
    /\ phase \in {"ready", "returned"}
    /\ state_step < MaxStep
    /\ \E g \in GradTensors(scalar_t, numel, state_step + 1), sh \in Partitions(numel) :
        /\ grad' = g.storage
        /\ grad_stride' = g.stride
        /\ grad_contiguous' = Contiguous(g.storage, g.stride, numel)
        /\ shards' = sh
        /\ d' = [w \in 1 .. Len(sh) |-> 0]
        /\ pre' = [ param |-> param, grad |-> g.storage, exp_avg |-> exp_avg,
                    exp_avg_sq |-> exp_avg_sq, max_exp_avg_sq |-> max_exp_avg_sq,
                    grad_scale |-> grad_scale ]
    /\ state_step' = state_step + 1
    /\ phase' = "running"
    /\ updatedBy' = [j \in Indices |-> <<>>]
    /\ decay_taken' = FALSE
    /\ max_accessed' = FALSE
    /\ UNCHANGED <<config, param, exp_avg, exp_avg_sq, max_exp_avg_sq>>

\* worker w runs one loop body with lane results R and advances d by step
Iterate(w, R, step) ==
    LET mem == Store(Mem, R)
    IN  /\ param' = mem.param
        /\ grad' = mem.grad
        /\ exp_avg' = mem.exp_avg
        /\ exp_avg_sq' = mem.exp_avg_sq
        /\ max_exp_avg_sq' = mem.max_exp_avg_sq
        /\ d' = [d EXCEPT ![w] = @ + step]
        /\ updatedBy' = [j \in Indices |->
                            IF j \in DOMAIN R THEN Append(updatedBy[j], w)
                                              ELSE updatedBy[j]]
        /\ decay_taken' = (decay_taken \/ \E j \in DOMAIN R : R[j].decay)
        /\ max_accessed' = (max_accessed \/ \E j \in DOMAIN R : R[j].ams)
        /\ UNCHANGED <<config, grad_stride, grad_contiguous, state_step, phase,
                       shards, pre>>

\* one iteration of the vector loop of the float/double adam_math
WideVecIter(w) ==
    /\ phase = "running"
    /\ scalar_t \notin Narrow
    /\ VecLoopGuard(d[w], shards[w].end - shards[w].begin, VecSize)
    /\ Iterate(w, VecResults(scalar_t, Args, Mem, shards[w].begin + d[w]), VecSize)

\* one iteration of the tail loop of the float/double adam_math
WideTailIter(w) ==
    /\ phase = "running"
    /\ scalar_t \notin Narrow
    /\ TailLoopGuard(d[w], shards[w].end - shards[w].begin, VecSize)
    /\ Iterate(w, TailResults(scalar_t, Args, Mem, shards[w].begin + d[w]), 1)

\* one iteration of the vector loop of the Half/BFloat16 adam_math
NarrowVecIter(w) ==
    /\ phase = "running"
    /\ scalar_t \in Narrow
    /\ VecLoopGuard(d[w], shards[w].end - shards[w].begin, lpVecSize)
    /\ Iterate(w, VecResults(scalar_t, Args, Mem, shards[w].begin + d[w]), lpVecSize)

\* one iteration of the tail loop of the Half/BFloat16 adam_math
NarrowTailIter(w) ==
    /\ phase = "running"
    /\ scalar_t \in Narrow
    /\ TailLoopGuard(d[w], shards[w].end - shards[w].begin, lpVecSize)
    /\ Iterate(w, TailResults(scalar_t, Args, Mem, shards[w].begin + d[w]), 1)

\* worker w has left both loops of adam_math
Finished(w) == d[w] >= shards[w].end - shards[w].begin

\* parallel_for joins its workers and the kernel returns
Return ==
    /\ phase = "running"
    /\ \A w \in Workers : Finished(w)
    /\ phase' = "returned"
    /\ UNCHANGED <<config, buffers, grad_stride, grad_contiguous, state_step,
                   shards, d, pre, updatedBy, decay_taken, max_accessed>>

Next ==
    \/ Call
    \/ \E w \in Workers : WideVecIter(w)
    \/ \E w \in Workers : WideTailIter(w)
    \/ \E w \in Workers : NarrowVecIter(w)
    \/ \E w \in Workers : NarrowTailIter(w)
    \/ Return

Spec == Init /\ [][Next]_vars

(* ------------------------------ properties ----------------------------- *)
\* the buffers when the running (or last) call was made
PreMem == [ param |-> pre.param, grad |-> pre.grad, exp_avg |-> pre.exp_avg,
            exp_avg_sq |-> pre.exp_avg_sq, max_exp_avg_sq |-> pre.max_exp_avg_sq ]

Returned == phase = "returned"

\* the stored fields of a lane result
Stored(r) == [ param |-> r.param, grad |-> r.grad, exp_avg |-> r.exp_avg,
               exp_avg_sq |-> r.exp_avg_sq, max_exp_avg_sq |-> r.max_exp_avg_sq ]

\* the update law in its stated order: unscale, negate if maximize, weight
\* decay by mode on the pre-step param, first moment, second moment,
\* denominator (running max if amsgrad), parameter update
UpdateLaw(h, e) ==
    LET g2 == IF h.grad_scale # 0 THEN Div(e.grad, h.grad_scale) ELSE e.grad
        g3 == IF h.maximize THEN -g2 ELSE g2
        g4 == IF h.weight_decay # 0 /\ h.adam_mode = "ORIGINAL"
              THEN g3 + Mul(e.param, h.weight_decay) ELSE g3
        p4 == IF h.weight_decay # 0 /\ h.adam_mode = "ADAMW"
              THEN e.param - Mul(Mul(h.lr, h.weight_decay), e.param) ELSE e.param
        m == e.exp_avg + Mul(h.exp_avg_grad_coefficient, g4 - e.exp_avg)
        v == Mul(h.beta2, e.exp_avg_sq) + Mul(Mul(h.exp_avg_sq_grad_coefficient, g4), g4)
        vmax == IF h.amsgrad THEN (IF e.max_exp_avg_sq >= v THEN e.max_exp_avg_sq ELSE v)
                             ELSE e.max_exp_avg_sq
        denom == Div(Sqrt(IF h.amsgrad THEN vmax ELSE v), h.bias_correction2_sqrt)
                 + h.eps
    IN  [ param |-> p4 - Div(Mul(h.step_size, m), denom), grad |-> g2,
          exp_avg |-> m, exp_avg_sq |-> v, max_exp_avg_sq |-> vmax ]

\* C1: in the Half/BFloat16 adam_math every element the vector pass handles,
\* in either half of a loaded vector, ends with the exp_avg, exp_avg_sq,
\* max_exp_avg_sq, param and grad that the tail loop of the same
\* specialization computes from that element's own values.
C1_NarrowVectorPerElement ==
    (Returned /\ scalar_t \in Narrow) =>
        \A j \in Indices :
            Elem(Mem, j) = Stored(NarrowTailLane(Args, Elem(PreMem, j)))

\* C2: the buffers after the call are the same for every partition of
\* [0, numel) into contiguous shards.
C2_ShardInvariance ==
    Returned =>
        \A sh \in Partitions(numel) : Mem = RunShards(scalar_t, Args, PreMem, sh)

\* C3: in the float/double adam_math every element, whether the vector loop
\* or the tail loop handled it, ends with the result of the update law
\* applied in order to its pre-call values.
C3_WideVectorTailUpdateLaw ==
    (Returned /\ scalar_t \notin Narrow) =>
        \A j \in Indices :
            /\ Elem(Mem, j) = UpdateLaw(Args, Elem(PreMem, j))
            /\ Stored(WideVecLane(Args, Elem(PreMem, j)))
                 = Stored(WideTailLane(Args, Elem(PreMem, j)))

\* a float call over one shard of size VecSize + 1 (a full vector and a tail
\* element), with decay, amsgrad, maximize and unscaling all active
C3_Witness ==
    /\ Returned /\ scalar_t \notin Narrow
    /\ numel = VecSize + 1 /\ Len(shards) = 1
    /\ weight_decay # 0 /\ amsgrad /\ maximize /\ grad_scale # 0
    /\ adam_mode = "ORIGINAL"

\* C4: the gradient buffer handed to the math layer is the contiguous copy:
\* the element a loop body loaded as grad_ptr[j] at the start of the call is
\* the caller's logical element j.
C4_GradientReadIsLogical ==
    \A j \in Indices :
        updatedBy[j] # <<>> => PreMem.grad[j] = grad_contiguous[j]

\* C5: with a grad scale, every element a loop body has handled holds the
\* pre-call gradient divided by the scale, in storage dtype and with the
\* caller's sign, whatever maximize is; after the call that is every
\* element of the buffer adam_math was given.
C5_UnscaleWriteBack ==
    grad_scale # 0 =>
        \A j \in Indices :
            (updatedBy[j] # <<>> \/ Returned) =>
                grad[j] = IF scalar_t \in Narrow
                          THEN ConvertFromFloat(
                                   Div(ConvertToFloat(pre.grad[j]), grad_scale))
                          ELSE Div(pre.grad[j], grad_scale)

\* a Half/BFloat16 call with unscaling and maximize whose single shard ran a
\* vector iteration and a tail iteration, and changed the gradient
C5_Witness ==
    /\ Returned /\ scalar_t \in Narrow /\ grad_scale # 0 /\ maximize
    /\ numel = lpVecSize + 1 /\ Len(shards) = 1
    /\ \A j \in Indices : grad[j] # pre.grad[j]

\* C6: with amsgrad, max_exp_avg_sq[j] never falls below its pre-call value,
\* and once element j is updated it is at least exp_avg_sq[j].
C6_AmsgradMonotone ==
    amsgrad =>
        \A j \in Indices :
            /\ max_exp_avg_sq[j] >= pre.max_exp_avg_sq[j]
            /\ (updatedBy[j] # <<>> \/ Returned) => max_exp_avg_sq[j] >= exp_avg_sq[j]

\* a second step with amsgrad where one element's running max grew and
\* another kept a max strictly above its new exp_avg_sq
C6_Witness ==
    /\ Returned /\ amsgrad /\ state_step = 2
    /\ \E j \in Indices : max_exp_avg_sq[j] > pre.max_exp_avg_sq[j]
    /\ \E j \in Indices : /\ max_exp_avg_sq[j] > exp_avg_sq[j]
                          /\ max_exp_avg_sq[j] = pre.max_exp_avg_sq[j]

\* the buffers the maximize symmetry compares
Moments(mem) == [ param |-> mem.param, exp_avg |-> mem.exp_avg,
                  exp_avg_sq |-> mem.exp_avg_sq,
                  max_exp_avg_sq |-> mem.max_exp_avg_sq ]

\* C7: without a grad scale, the call leaves param, exp_avg, exp_avg_sq and
\* max_exp_avg_sq as the call with maximize toggled and the gradient
\* negated leaves them, from the same pre-call state and shards.
C7_MaximizeSymmetry ==
    (Returned /\ grad_scale = 0) =>
        Moments(Mem) =
            Moments(RunShards(scalar_t, [Args EXCEPT !.maximize = ~maximize],
                              [PreMem EXCEPT !.grad = [i \in DOMAIN pre.grad |->
                                                          -pre.grad[i]]],
                              shards))

\* a maximize call in ORIGINAL mode with weight decay, without a grad scale
C7_Witness ==
    /\ Returned /\ grad_scale = 0 /\ maximize
    /\ weight_decay # 0 /\ adam_mode = "ORIGINAL" /\ numel = MaxN
    /\ \E j \in Indices : exp_avg[j] # 0

OtherMode == IF adam_mode = "ORIGINAL" THEN "ADAMW" ELSE "ORIGINAL"

\* C8: with weight_decay = 0 no loop body enters the decay branch, the two
\* modes give the same buffers, lr does not enter outside step_size, and the
\* pre-step param does not enter the gradient or the moments.
C8_ZeroDecayIdentity ==
    weight_decay = 0 =>
        /\ ~decay_taken
        /\ Returned =>
            /\ Mem = RunShards(scalar_t, [Args EXCEPT !.adam_mode = OtherMode],
                               PreMem, shards)
            /\ Mem = RunShards(scalar_t, [Args EXCEPT !.lr = 0], PreMem, shards)
            /\ LET zp == RunShards(scalar_t, Args,
                                   [PreMem EXCEPT !.param = [j \in Indices |-> 0]],
                                   shards)
               IN  /\ exp_avg = zp.exp_avg
                   /\ exp_avg_sq = zp.exp_avg_sq
                   /\ max_exp_avg_sq = zp.max_exp_avg_sq
                   /\ grad = zp.grad

\* an ADAMW call with weight_decay = 0 that updated a non-empty tensor
C8_Witness ==
    /\ Returned /\ weight_decay = 0 /\ adam_mode = "ADAMW"
    /\ numel = MaxN /\ param # pre.param

\* the shards taken in the order f gives
Reordered(f) == [k \in 1 .. Len(shards) |-> shards[f[k]]]

\* the orders in which the shards can run one after another
Orders == {f \in [Workers -> Workers] : \A a, b \in Workers : f[a] = f[b] => a = b}

\* C9: a loop body of worker w touches only indices of w's shard, no index
\* is updated twice, storage outside [0, numel) is left alone, and when the
\* workers have joined every index was updated exactly once and the buffers
\* are those of running the shards one after another in any order.
C9_DisjointShards ==
    /\ \A j \in Indices :
        /\ Len(updatedBy[j]) <= 1
        /\ \A k \in 1 .. Len(updatedBy[j]) :
              /\ shards[updatedBy[j][k]].begin <= j
              /\ j < shards[updatedBy[j][k]].end
    /\ \A i \in DOMAIN grad : i \notin Indices => grad[i] = pre.grad[i]
    /\ Returned =>
        /\ \A j \in Indices : Len(updatedBy[j]) = 1
        /\ \A f \in Orders :
              Mem = RunShards(scalar_t, Args, PreMem, Reordered(f))

\* two workers out of order: a later shard is finished while an earlier
\* one has not started
C9_Witness ==
    /\ phase = "running"
    /\ \E w1, w2 \in Workers :
          /\ w1 < w2 /\ d[w1] = 0 /\ ~Finished(w1) /\ Finished(w2)
          /\ shards[w2].end - shards[w2].begin > 1

\* C10: without amsgrad max_exp_avg_sq is never dereferenced and keeps its
\* values; without a grad scale grad keeps its values; the grad scale is
\* never written; with numel = 0 no buffer changes.
C10_Frame ==
    /\ ~amsgrad => (~max_accessed /\ max_exp_avg_sq = pre.max_exp_avg_sq)
    /\ grad_scale = 0 => grad = pre.grad
    /\ grad_scale = pre.grad_scale
    /\ numel = 0 => Mem = PreMem

\* a call without amsgrad and without a grad scale that updated every
\* element of a non-empty tensor
C10_Witness ==
    /\ Returned /\ ~amsgrad /\ grad_scale = 0 /\ numel = MaxN
    /\ \A j \in Indices : param[j] # pre.param[j] /\ exp_avg_sq[j] # pre.exp_avg_sq[j]

====
